---- MODULE Spec2Model ----
(***************************************************************************)
(* Model of KeybindingResolver                                             *)
(* (src/vs/platform/keybinding/common/keybindingResolver.ts).              *)
(*                                                                         *)
(* A ResolvedKeybindingItem is a record                                    *)
(*   [id, chords, when, commands, isDefault, bubble]                       *)
(* where id stands for the object's identity (the code compares items with *)
(* ===), chords is a sequence of key strings, commands is a sequence of    *)
(* command ids and a command id is a sequence of characters, so that       *)
(* charAt(0) and substring(1) are computed and not assumed.                *)
(* An optional value (T | null, T | undefined) is a sequence of length     *)
(* at most one.                                                            *)
(***************************************************************************)
EXTENDS Integers, Sequences, FiniteSets, TLC

VARIABLES defaultKeybindings, overrides, keybindings, defaultBoundCommands,
          map, lookupMap, pc, i, call, found, result

vars == <<defaultKeybindings, overrides, keybindings, defaultBoundCommands,
          map, lookupMap, pc, i, call, found, result>>

----------------------------------------------------------------------------
(* Bounds of the model *)

(* the number of rules given to the constructor, defaults and overrides    *)
(* together                                                                *)
MaxRules == 3

(* Key strings, context keys and contexts *)
Keys == {"K1", "K2"}

Atoms == {"a", "b"}

Contexts == SUBSET Atoms

(* JavaScript's undefined / null where a string is expected *)
Undefined == "undefined"

Null == "null"

(* Command ids, as character sequences *)
Cx == <<"x">>

Cy == <<"y">>

CNegX == <<"-", "x">>

CNegY == <<"-", "y">>

CEmpty == <<>>

CommandIds == {Cx, Cy}

----------------------------------------------------------------------------
(* Context key expressions (vs/platform/contextkey/common/contextkey).     *)
(* when is one of: Undefined (no when clause), "true", "false", "a", "b",  *)
(* "a && b".                                                               *)

Whens == {Undefined, "true", "false", "a", "b", "a && b"}

ExprType(w) ==
    IF w = "true" THEN "True" ELSE IF w = "false" THEN "False"
    ELSE IF w = "a && b" THEN "And" ELSE "Defined"

ExprKeys(w) ==
    IF w = "a" THEN {"a"} ELSE IF w = "b" THEN {"b"}
    ELSE IF w = "a && b" THEN {"a", "b"} ELSE {}

(* ContextKeyExpression.evaluate(context) *)
Evaluate(w, context) ==
    IF ExprType(w) = "True" THEN TRUE
    ELSE IF ExprType(w) = "False" THEN FALSE
    ELSE ExprKeys(w) \subseteq context

(* implies(p, q): it is provable that p implies q *)
Implies(p, q) ==
    \/ ExprType(p) = "False"
    \/ ExprType(q) = "True"
    \/ /\ ExprType(p) \in {"Defined", "And"}
       /\ ExprType(q) \in {"Defined", "And"}
       /\ ExprKeys(q) \subseteq ExprKeys(p)

(* expressionsAreEqualWithConstantSubstitution(a, b), both defined *)
ExpressionsAreEqualWithConstantSubstitution(a, b) == a = b

(* IContextKeyService.contextMatchesRules(rules) in the context the        *)
(* service holds *)
ContextMatchesRulesService(context, rules) ==
    IF rules = Undefined THEN TRUE ELSE Evaluate(rules, context)

----------------------------------------------------------------------------
(* JavaScript helpers *)

(* arr[n] with a 0-based index: undefined past the end *)
ChordAt(item, n) ==
    IF n + 1 <= Len(item.chords) THEN item.chords[n + 1] ELSE Undefined

(* truthiness of a string | undefined | null *)
Truthy(s) == s # Undefined /\ s # Null /\ s # ""

(* command.charAt(0) *)
CharAt0(command) == IF Len(command) = 0 THEN "" ELSE command[1]

(* command.substring(1) *)
Substring1(command) == IF Len(command) = 0 THEN command ELSE Tail(command)

RECURSIVE FilterSeq(_, _)
(* the elements of s that are in the set keep, in order *)
FilterSeq(s, keep) ==
    IF s = <<>> THEN <<>>
    ELSE IF Head(s) \in keep THEN <<Head(s)>> \o FilterSeq(Tail(s), keep)
    ELSE FilterSeq(Tail(s), keep)

Range(s) == {s[n] : n \in DOMAIN s}

----------------------------------------------------------------------------
(* _isTargetedForRemoval comparing the when clauses also when the removal   *)
(* has none                                                                *)
IsTargetedForRemoval_EqualWhen(defaultKb, keypressFirstPart, keypressChordPart, when) ==
    IF Truthy(keypressFirstPart) /\ ChordAt(defaultKb, 0) # keypressFirstPart
    THEN FALSE
    ELSE IF Truthy(keypressChordPart) /\ ChordAt(defaultKb, 1) # keypressChordPart
    THEN FALSE
    ELSE when = defaultKb.when

(* KeybindingResolver._isTargetedForRemoval *)
IsTargetedForRemoval(defaultKb, keypressFirstPart, keypressChordPart, when) ==
    IF Truthy(keypressFirstPart) /\ ChordAt(defaultKb, 0) # keypressFirstPart
    THEN FALSE
    ELSE IF Truthy(keypressChordPart) /\ ChordAt(defaultKb, 1) # keypressChordPart
    THEN FALSE
    ELSE IF when # Undefined /\ ExprType(when) # "True"
    THEN IF defaultKb.when = Undefined THEN FALSE
         ELSE ExpressionsAreEqualWithConstantSubstitution(when, defaultKb.when)
    ELSE TRUE

(* first pass of handleRemovals: is the rule recorded as a removal *)
IsRemovalRule(rule) ==
    Len(rule.commands) = 1 /\ CharAt0(rule.commands[1]) = "-"

(* first pass of handleRemovals: removals.get(command), <<>> when the map  *)
(* has no entry (an entry is never empty)                                  *)
RemovalsFor(rules, command) ==
    FilterSeq(rules, {r \in Range(rules) :
                        IsRemovalRule(r) /\ Substring1(r.commands[1]) = command})

(* second pass of handleRemovals without the test of line 128 *)
KeepRule_KeepsRemovals(rules, rule) ==
    IF Len(rule.commands) = 0 \/ Len(rule.commands) > 1
       \/ Len(rule.commands[1]) = 0
    THEN TRUE
    ELSE LET commandRemovals == RemovalsFor(rules, rule.commands[1])
         IN IF commandRemovals = <<>> \/ ~rule.isDefault
            THEN TRUE
            ELSE ~ \E n \in DOMAIN commandRemovals :
                     IsTargetedForRemoval(rule, ChordAt(commandRemovals[n], 0),
                                          ChordAt(commandRemovals[n], 1),
                                          commandRemovals[n].when)

(* second pass of handleRemovals: is the rule pushed to result *)
KeepRule(rules, rule) ==
    IF Len(rule.commands) = 0 \/ Len(rule.commands) > 1
       \/ Len(rule.commands[1]) = 0
    THEN TRUE
    ELSE IF CharAt0(rule.commands[1]) = "-"
    THEN FALSE
    ELSE LET commandRemovals == RemovalsFor(rules, rule.commands[1])
         IN IF commandRemovals = <<>> \/ ~rule.isDefault
            THEN TRUE
            ELSE ~ \E n \in DOMAIN commandRemovals :
                     IsTargetedForRemoval(rule, ChordAt(commandRemovals[n], 0),
                                          ChordAt(commandRemovals[n], 1),
                                          commandRemovals[n].when)

(* KeybindingResolver.handleRemovals *)
HandleRemovals(rules) ==
    IF \A r \in Range(rules) : ~IsRemovalRule(r)
    THEN rules
    ELSE FilterSeq(rules, {r \in Range(rules) : KeepRule(rules, r)})

(* constructor, lines 42-49, reading only the first command of a rule *)
DefaultBoundCommands_FirstCommand(defaults) ==
    {command \in {d.commands[1] : d \in {e \in Range(defaults) : Len(e.commands) > 0}} :
        Len(command) > 0 /\ CharAt0(command) # "-"}

(* constructor, lines 42-49 *)
DefaultBoundCommands(defaults) ==
    {command \in UNION {Range(d.commands) : d \in Range(defaults)} :
        Len(command) > 0 /\ CharAt0(command) # "-"}

----------------------------------------------------------------------------
(* constructor, lines 57-65 without the test for zero chords *)
ShouldIndex_Unbound(k) ==
    IF k.when # Undefined /\ ExprType(k.when) = "False" THEN FALSE
    ELSE TRUE

(* constructor, lines 57-65: is the rule passed to _addKeyPress *)
ShouldIndex(k) ==
    IF Len(k.chords) = 0 THEN FALSE
    ELSE IF k.when # Undefined /\ ExprType(k.when) = "False" THEN FALSE
    ELSE TRUE

(* KeybindingResolver._addToLookupMap *)
AddToLookupMap(lm, item) ==
    IF Len(item.commands) # 1 THEN lm
    ELSE LET command == item.commands[1]
         IN IF command \notin DOMAIN lm
            THEN lm @@ (command :> <<item>>)
            ELSE [lm EXCEPT ![command] = Append(@, item)]

(* KeybindingResolver._removeFromLookupMap *)
RemoveFromLookupMap(lm, item) ==
    IF Len(item.commands) # 1 THEN lm
    ELSE LET command == item.commands[1]
         IN IF command \notin DOMAIN lm THEN lm
            ELSE LET arr == lm[command]
                     hits == {n \in DOMAIN arr : arr[n] = item}
                 IN IF hits = {} THEN lm
                    ELSE LET n == CHOOSE h \in hits : \A g \in hits : h <= g
                         IN [lm EXCEPT ![command] =
                               SubSeq(arr, 1, n - 1) \o SubSeq(arr, n + 1, Len(arr))]

(* whenIsEntirelyIncluded proving that b implies a *)
WhenIsEntirelyIncluded_Converse(a, b) ==
    IF a = Undefined \/ ExprType(a) = "True" THEN TRUE
    ELSE IF b = Undefined \/ ExprType(b) = "True" THEN FALSE
    ELSE Implies(b, a)

(* KeybindingResolver.whenIsEntirelyIncluded *)
WhenIsEntirelyIncluded(a, b) ==
    IF b = Undefined \/ ExprType(b) = "True" THEN TRUE
    ELSE IF a = Undefined \/ ExprType(a) = "True" THEN FALSE
    ELSE Implies(a, b)

(* arrays.equals(conflict.commands, item.commands, by command id) *)
CommandsEqual(one, other) ==
    /\ Len(one) = Len(other)
    /\ \A n \in DOMAIN one : one[n] = other[n]

(* _addKeyPress, body of the loop over conflicts: does item remove         *)
(* conflict from the lookup map                                            *)
Overwrites(conflict, item) ==
    IF CommandsEqual(conflict.commands, item.commands) THEN FALSE
    ELSE IF Len(conflict.chords) > 1 /\ Len(item.chords) > 1
            /\ ChordAt(conflict, 1) # ChordAt(item, 1)
    THEN FALSE
    ELSE WhenIsEntirelyIncluded(conflict.when, item.when)

RECURSIVE RemoveConflicts(_, _, _, _)
(* _addKeyPress, the loop over conflicts from index n (1-based) down *)
RemoveConflicts(lm, conflicts, item, n) ==
    IF n = 0 THEN lm
    ELSE RemoveConflicts(IF Overwrites(conflicts[n], item)
                         THEN RemoveFromLookupMap(lm, conflicts[n])
                         ELSE lm,
                         conflicts, item, n - 1)

(* KeybindingResolver._addKeyPress: the new _map *)
AddKeyPressMap(m, keypress, item) ==
    IF keypress \notin DOMAIN m
    THEN m @@ (keypress :> <<item>>)
    ELSE [m EXCEPT ![keypress] = Append(@, item)]

(* KeybindingResolver._addKeyPress: the new _lookupMap *)
AddKeyPressLookupMap(m, lm, keypress, item) ==
    IF keypress \notin DOMAIN m
    THEN AddToLookupMap(lm, item)
    ELSE AddToLookupMap(
             RemoveConflicts(lm, m[keypress], item, Len(m[keypress])), item)

----------------------------------------------------------------------------
(* KeybindingResolver._contextMatchesRules *)
ContextMatchesRules(context, rules) ==
    IF rules = Undefined THEN TRUE ELSE Evaluate(rules, context)

RECURSIVE FindCommandFrom(_, _, _)
(* _findCommand, the loop from index n (1-based) down *)
FindCommandFrom(context, matches, n) ==
    IF n = 0 THEN <<>>
    ELSE IF ~ContextMatchesRules(context, matches[n].when)
    THEN FindCommandFrom(context, matches, n - 1)
    ELSE <<matches[n]>>

(* _findCommand scanning from the oldest entry to the newest *)
FindCommand_OldestFirst(context, matches) ==
    LET hits == {n \in DOMAIN matches : ContextMatchesRules(context, matches[n].when)}
    IN IF hits = {} THEN <<>>
       ELSE <<matches[CHOOSE h \in hits : \A g \in hits : h <= g]>>

(* KeybindingResolver._findCommand *)
FindCommand(context, matches) == FindCommandFrom(context, matches, Len(matches))

(* resolve, lines 302-309 without the test of the second chord *)
ChordCandidates_All(candidates, keypress) == candidates

(* resolve, lines 302-309: the candidates whose second chord is keypress *)
ChordCandidates(candidates, keypress) ==
    FilterSeq(candidates, {c \in Range(candidates) : ChordAt(c, 1) = keypress})

(* resolve, lines 290-321: the item _findCommand returns, if any *)
ResolveFind(m, context, currentChord, keypress) ==
    IF currentChord # Null
    THEN IF currentChord \notin DOMAIN m THEN <<>>
         ELSE FindCommand(context, ChordCandidates(m[currentChord], keypress))
    ELSE IF keypress \notin DOMAIN m THEN <<>>
         ELSE FindCommand(context, m[keypress])

(* resolve, line 328 without the test of currentChord *)
EntersMultiChord_AnyState(currentChord, item) ==
    Len(item.chords) > 1 /\ ChordAt(item, 1) # Null

(* resolve, line 328: is the outcome "enter multi chord" *)
EntersMultiChord(currentChord, item) ==
    currentChord = Null /\ Len(item.chords) > 1 /\ ChordAt(item, 1) # Null

(* resolve, lines 322-344: the IResolveResult | null *)
ResolveResult(currentChord, res) ==
    IF res = <<>> THEN <<>>
    ELSE IF EntersMultiChord(currentChord, res[1])
    THEN << [enterMultiChord |-> TRUE, leaveMultiChord |-> FALSE,
             commands |-> <<>>, bubble |-> FALSE] >>
    ELSE << [enterMultiChord |-> FALSE,
             leaveMultiChord |-> Len(res[1].chords) > 1,
             commands |-> res[1].commands, bubble |-> res[1].bubble] >>

RECURSIVE ReverseFrom(_, _)
(* lookupKeybindings, the loop from index n (1-based) down *)
ReverseFrom(items, n) ==
    IF n = 0 THEN <<>> ELSE <<items[n]>> \o ReverseFrom(items, n - 1)

(* lookupKeybindings returning the entry as it is stored *)
LookupKeybindingsResult_Stored(lm, commandId) ==
    IF commandId \notin DOMAIN lm THEN <<>> ELSE lm[commandId]

(* KeybindingResolver.lookupKeybindings *)
LookupKeybindingsResult(lm, commandId) ==
    IF commandId \notin DOMAIN lm \/ Len(lm[commandId]) = 0 THEN <<>>
    ELSE ReverseFrom(lm[commandId], Len(lm[commandId]))

(* lookupPrimaryKeybinding falling back to the first entry *)
PrimaryFrom_Oldest(context, items, n) ==
    LET hits == {m \in 1..n : ContextMatchesRulesService(context, items[m].when)}
    IN IF hits = {} THEN <<items[1]>>
       ELSE <<items[CHOOSE h \in hits : \A g \in hits : g <= h]>>

RECURSIVE PrimaryFrom(_, _, _)
(* lookupPrimaryKeybinding, the loop from index n (1-based) down and the   *)
(* return after it                                                         *)
PrimaryFrom(context, items, n) ==
    IF n = 0 THEN <<items[Len(items)]>>
    ELSE IF ContextMatchesRulesService(context, items[n].when)
    THEN <<items[n]>>
    ELSE PrimaryFrom(context, items, n - 1)

(* KeybindingResolver.lookupPrimaryKeybinding *)
LookupPrimaryKeybindingResult(lm, commandId, context) ==
    IF commandId \notin DOMAIN lm \/ Len(lm[commandId]) = 0 THEN <<>>
    ELSE IF Len(lm[commandId]) = 1 THEN <<lm[commandId][1]>>
    ELSE PrimaryFrom(context, lm[commandId], Len(lm[commandId]))

----------------------------------------------------------------------------
(* The rules given to the constructor *)

MkItem(shape, n, def) ==
    [id |-> n, chords |-> shape.chords, when |-> shape.when,
     commands |-> shape.commands, isDefault |-> def, bubble |-> shape.bubble]

SeqsUpTo(S, n) == UNION {[1..m -> S] : m \in 0..n}

NoCall ==
    [op |-> "none", context |-> {}, currentChord |-> Null, keypress |-> Null,
     commandId |-> <<>>]

Shape(chords, when, commands, bubble) ==
    [chords |-> chords, when |-> when, commands |-> commands, bubble |-> bubble]

(* new KeybindingResolver(defaultKeybindings, overrides, log) is entered   *)
(* with at most MaxRules rules of the shapes S, the first d of them being  *)
(* the default keybindings and the rest the user's                         *)
InitWith(S) ==
    \E rs \in SeqsUpTo(S, MaxRules) :
      \E d \in 0..Len(rs) :
       /\ defaultKeybindings = [n \in 1..d |-> MkItem(rs[n], n, TRUE)]
       /\ overrides = [n \in 1..(Len(rs) - d) |-> MkItem(rs[d + n], d + n, FALSE)]
       /\ keybindings = <<>>
       /\ defaultBoundCommands = {}
       /\ map = <<>>
       /\ lookupMap = <<>>
       /\ pc = "constructor"
       /\ i = 0
       /\ call = NoCall
       /\ found = <<>>
       /\ result = <<>>

----------------------------------------------------------------------------
(* constructor, line 54: the defaults followed by the overrides *)
Input == defaultKeybindings \o overrides

(* constructor, lines 39-54 *)
Construct ==
    /\ pc = "constructor"
    /\ defaultBoundCommands' = DefaultBoundCommands(defaultKeybindings)
    /\ keybindings' = HandleRemovals(Input)
    /\ i' = 0
    /\ pc' = "index"
    /\ UNCHANGED <<defaultKeybindings, overrides, map, lookupMap, call, found,
                   result>>

(* constructor, one iteration of the loop of lines 55-69 *)
IndexRule ==
    /\ pc = "index"
    /\ i < Len(keybindings)
    /\ LET k == keybindings[i + 1]
       IN IF ShouldIndex(k)
          THEN /\ map' = AddKeyPressMap(map, ChordAt(k, 0), k)
               /\ lookupMap' = AddKeyPressLookupMap(map, lookupMap, ChordAt(k, 0), k)
          ELSE UNCHANGED <<map, lookupMap>>
    /\ i' = i + 1
    /\ UNCHANGED <<defaultKeybindings, overrides, keybindings,
                   defaultBoundCommands, pc, call, found, result>>

(* constructor, the loop of lines 55-69 ends and the constructor returns *)
Constructed ==
    /\ pc = "index"
    /\ i >= Len(keybindings)
    /\ pc' = "ready"
    /\ UNCHANGED <<defaultKeybindings, overrides, keybindings,
                   defaultBoundCommands, map, lookupMap, i, call, found, result>>

Frame ==
    UNCHANGED <<defaultKeybindings, overrides, keybindings,
                defaultBoundCommands, map, lookupMap, pc, i>>

(* KeybindingResolver.resolve *)
Resolve ==
    /\ pc = "ready"
    /\ \E context \in Contexts, currentChord \in Keys \cup {Null}, keypress \in Keys :
         /\ call' = [op |-> "resolve", context |-> context,
                     currentChord |-> currentChord, keypress |-> keypress,
                     commandId |-> <<>>]
         /\ found' = ResolveFind(map, context, currentChord, keypress)
         /\ result' = ResolveResult(currentChord, found')
    /\ Frame

(* KeybindingResolver.lookupKeybindings *)
LookupKeybindings ==
    /\ pc = "ready"
    /\ \E commandId \in CommandIds :
         /\ call' = [NoCall EXCEPT !.op = "lookupKeybindings",
                                   !.commandId = commandId]
         /\ found' = <<>>
         /\ result' = LookupKeybindingsResult(lookupMap, commandId)
    /\ Frame

(* KeybindingResolver.lookupPrimaryKeybinding *)
LookupPrimaryKeybinding ==
    /\ pc = "ready"
    /\ \E commandId \in CommandIds, context \in Contexts :
         /\ call' = [NoCall EXCEPT !.op = "lookupPrimaryKeybinding",
                                   !.commandId = commandId,
                                   !.context = context]
         /\ found' = <<>>
         /\ result' = LookupPrimaryKeybindingResult(lookupMap, commandId, context)
    /\ Frame

(* KeybindingResolver.getDefaultBoundCommands *)
GetDefaultBoundCommands ==
    /\ pc = "ready"
    /\ call' = [NoCall EXCEPT !.op = "getDefaultBoundCommands"]
    /\ found' = <<>>
    /\ result' = defaultBoundCommands
    /\ Frame

(* KeybindingResolver.getKeybindings *)
GetKeybindings ==
    /\ pc = "ready"
    /\ call' = [NoCall EXCEPT !.op = "getKeybindings"]
    /\ found' = <<>>
    /\ result' = keybindings
    /\ Frame

Next ==
    \/ Construct
    \/ IndexRule
    \/ Constructed
    \/ Resolve
    \/ LookupKeybindings
    \/ LookupPrimaryKeybinding
    \/ GetDefaultBoundCommands
    \/ GetKeybindings

----------------------------------------------------------------------------
(* Rules for the removal pass: bindings of x on K1, K1 K2 and K2, with and *)
(* without a when clause, and removals of x                                *)
RemovalShapes ==
    { Shape(<<"K1">>, Undefined, <<Cx>>, FALSE),
      Shape(<<"K1">>, "a", <<Cx>>, FALSE),
      Shape(<<"K1", "K2">>, Undefined, <<Cx>>, FALSE),
      Shape(<<"K2">>, Undefined, <<Cx>>, FALSE),
      Shape(<<"K1">>, Undefined, <<CNegX>>, FALSE),
      Shape(<<"K1">>, "a", <<CNegX>>, FALSE),
      Shape(<<>>, Undefined, <<CNegX>>, FALSE) }

(* Rules with zero, one and several commands, removals and empty command   *)
(* ids                                                                     *)
CommandShapes ==
    { Shape(<<"K1">>, Undefined, <<Cx>>, FALSE),
      Shape(<<"K1">>, Undefined, <<CNegX>>, FALSE),
      Shape(<<"K1">>, Undefined, <<Cx, Cy>>, FALSE),
      Shape(<<"K1">>, Undefined, <<CNegY, Cy>>, FALSE),
      Shape(<<"K1">>, Undefined, <<CEmpty>>, FALSE),
      Shape(<<"K2">>, Undefined, <<>>, FALSE) }

(* Rules with one and two chords *)
ChordShapes ==
    { Shape(<<"K1">>, Undefined, <<Cx>>, FALSE),
      Shape(<<"K1">>, "a", <<Cy>>, TRUE),
      Shape(<<"K1", "K2">>, Undefined, <<Cy>>, TRUE),
      Shape(<<"K1", "K2">>, "a", <<Cx>>, FALSE),
      Shape(<<"K1", "K1">>, "b", <<Cx>>, FALSE),
      Shape(<<"K2">>, Undefined, <<Cy>>, FALSE) }

(* Rules that are indexed and rules that are not: zero chords, a when      *)
(* clause that is the constant false                                       *)
IndexShapes ==
    { Shape(<<>>, Undefined, <<Cx>>, FALSE),
      Shape(<<"K1">>, Undefined, <<Cx>>, FALSE),
      Shape(<<"K1">>, "a", <<Cy>>, TRUE),
      Shape(<<"K1">>, "false", <<Cy>>, FALSE),
      Shape(<<"K1", "K2">>, "b", <<Cy>>, TRUE),
      Shape(<<"K2">>, Undefined, <<Cx>>, TRUE) }

(* Rules on one chord with different when clauses *)
WhenShapes ==
    { Shape(<<"K1">>, Undefined, <<Cx>>, FALSE),
      Shape(<<"K1">>, "a", <<Cx>>, TRUE),
      Shape(<<"K1">>, "b", <<Cx>>, FALSE),
      Shape(<<"K1">>, "a && b", <<Cy>>, TRUE),
      Shape(<<"K1">>, "a", <<Cy>>, FALSE),
      Shape(<<"K1">>, "true", <<Cy>>, FALSE),
      Shape(<<"K1">>, "false", <<Cx>>, FALSE) }

InitRemoval == InitWith(RemovalShapes)

InitCommands == InitWith(CommandShapes)

InitChords == InitWith(ChordShapes)

InitIndex == InitWith(IndexShapes)

InitWhen == InitWith(WhenShapes)

SpecRemoval == InitRemoval /\ [][Next]_vars

SpecCommands == InitCommands /\ [][Next]_vars

SpecChords == InitChords /\ [][Next]_vars

SpecIndex == InitIndex /\ [][Next]_vars

SpecWhen == InitWhen /\ [][Next]_vars

----------------------------------------------------------------------------
(* Properties *)

(* a rule with exactly one command whose command id starts with '-' *)
IsDirective(r) ==
    /\ Len(r.commands) = 1
    /\ Len(r.commands[1]) > 0
    /\ r.commands[1][1] = "-"

(* the directive d removes command C, has the chords [K] and no when *)
IsPlainDirective(d, C, K) ==
    /\ IsDirective(d)
    /\ Tail(d.commands[1]) = C
    /\ d.chords = <<K>>
    /\ d.when = Undefined

(* the rule r binds the single command C and its first chord is K *)
BindsOn(r, C, K) ==
    /\ r.commands = <<C>>
    /\ Len(r.chords) > 0
    /\ r.chords[1] = K

(* C1: once handleRemovals has run over the defaults followed by the       *)
(* overrides, for every removal directive '-C' with chords [K] and no when *)
(* clause, no default rule whose single command is C and whose first chord *)
(* is K is in the merged list, whatever its when clause, and every user    *)
(* rule whose single command is C on chord K is still in it.               *)
C1_RemovalTargeting ==
    pc # "constructor" =>
      \A d \in Range(Input) : \A C \in CommandIds : \A K \in Keys :
        IsPlainDirective(d, C, K) =>
          \A r \in Range(Input) :
            BindsOn(r, C, K) =>
              /\ r.isDefault => r \notin Range(keybindings)
              /\ ~r.isDefault => r \in Range(keybindings)

(* a plain directive has removed a default rule that has a when clause and *)
(* left a user rule of the same command and chord                          *)
C1_Witness ==
    /\ pc = "ready"
    /\ \E d, r, u \in Range(Input) : \E C \in CommandIds : \E K \in Keys :
         /\ IsPlainDirective(d, C, K)
         /\ BindsOn(r, C, K) /\ r.isDefault /\ r.when # Undefined
         /\ r \notin Range(keybindings)
         /\ BindsOn(u, C, K) /\ ~u.isDefault
         /\ u \in Range(keybindings)

(* C8: from the end of the removal pass on, no removal directive is in the *)
(* merged rule list, in an entry of _map or in an entry of _lookupMap, and *)
(* getKeybindings() returns none.                                          *)
C8_NoDirectiveSurvives ==
    /\ \A r \in Range(keybindings) : ~IsDirective(r)
    /\ \A k \in DOMAIN map : \A r \in Range(map[k]) : ~IsDirective(r)
    /\ \A c \in DOMAIN lookupMap : \A r \in Range(lookupMap[c]) : ~IsDirective(r)
    /\ call.op = "getKeybindings" => \A r \in Range(result) : ~IsDirective(r)

(* getKeybindings() was called on a resolver built from a list with a      *)
(* directive that matches no default rule                                  *)
C8_Witness ==
    /\ call.op = "getKeybindings"
    /\ \E d \in Range(Input) :
         /\ IsDirective(d)
         /\ \A r \in Range(Input) :
              r.isDefault /\ ~IsDirective(r) => r \in Range(keybindings)
    /\ Len(result) > 0

(* the command ids that occur in the rules of the model *)
KnownCommands == {Cx, Cy, CNegX, CNegY, CEmpty}

C9_ReverseIndex ==
    [][ /\ \A c \in DOMAIN lookupMap' :
             /\ \A r \in Range(lookupMap'[c]) : r.commands = <<c>>
             /\ \A m, n \in DOMAIN lookupMap'[c] :
                  m < n => lookupMap'[c][m].id < lookupMap'[c][n].id
        /\ call'.op = "lookupKeybindings" =>
             /\ lookupMap' = lookupMap
             /\ LET items == IF call'.commandId \in DOMAIN lookupMap
                             THEN lookupMap[call'.commandId] ELSE <<>>
                IN /\ Len(result') = Len(items)
                   /\ \A n \in DOMAIN items :
                        result'[n] = items[Len(items) + 1 - n]
      ]_vars

(* lookupKeybindings returned two rules while a rule with two commands and *)
(* a rule with none are indexed by chord                                   *)
C9_Witness ==
    /\ call.op = "lookupKeybindings"
    /\ Len(result) >= 2
    /\ result[1].id > result[2].id
    /\ \E k \in DOMAIN map : \E r \in Range(map[k]) : Len(r.commands) # 1

(* the when clause w is absent or evaluates to true in the context *)
Satisfied(w, context) == w = Undefined \/ Evaluate(w, context)

(* the rules of _map under key that are satisfied in the context *)
Matching(key, context) ==
    IF key \in DOMAIN map
    THEN {r \in Range(map[key]) : Satisfied(r.when, context)}
    ELSE {}

EnterOutcome ==
    [enterMultiChord |-> TRUE, leaveMultiChord |-> FALSE, commands |-> <<>>,
     bubble |-> FALSE]

(* C3: a resolve() in the fresh state on K1, in a context where the only   *)
(* satisfied rule under K1 is a two-chord rule R = [K1, K2], returns       *)
(* enterMultiChord with no commands; the next resolve() in the same        *)
(* context with currentChord = K1 returns R's commands with                *)
(* enterMultiChord false and leaveMultiChord true when the keypress is K2, *)
(* and null for any other keypress.                                        *)
C3_MultiChordFlow ==
    [][ \A R \in Range(keybindings) :
          /\ ( /\ call'.op = "resolve"
               /\ call'.currentChord = Null
               /\ Len(R.chords) = 2
               /\ Matching(call'.keypress, call'.context) = {R} )
             => /\ result' # <<>>
                /\ result'[1].enterMultiChord
                /\ result'[1].commands = <<>>
          /\ ( /\ call.op = "resolve"
               /\ call.currentChord = Null
               /\ Len(R.chords) = 2
               /\ Matching(call.keypress, call.context) = {R}
               /\ call'.op = "resolve"
               /\ call'.context = call.context
               /\ call'.currentChord = call.keypress )
             => IF call'.keypress = R.chords[2]
                THEN /\ result' # <<>>
                     /\ result'[1].commands = R.commands
                     /\ ~result'[1].enterMultiChord
                     /\ result'[1].leaveMultiChord
                ELSE result' = <<>>
      ]_vars

(* the second chord K2 of the only matching rule [K1, K2] was resolved     *)
(* while another rule is indexed under K1                                  *)
C3_Witness ==
    /\ call.op = "resolve"
    /\ call.currentChord = "K1"
    /\ call.keypress = "K2"
    /\ \E R \in Range(keybindings) :
         /\ R.chords = <<"K1", "K2">>
         /\ Matching("K1", call.context) = {R}
         /\ Len(map["K1"]) > 1
         /\ result # <<>>
         /\ result[1].commands = R.commands
         /\ result[1].leaveMultiChord

(* the outcome of resolve() in the fresh state when it is decided by r *)
FreshOutcome(r) ==
    IF Len(r.chords) > 1 THEN EnterOutcome
    ELSE [enterMultiChord |-> FALSE, leaveMultiChord |-> FALSE,
          commands |-> r.commands, bubble |-> r.bubble]

(* the positions in the merged list of the rules that are indexed under    *)
(* the first chord key and satisfied in the context                        *)
MatchingPositions(key, context) ==
    {n \in DOMAIN keybindings : keybindings[n] \in Matching(key, context)}

(* C4: resolve(ctx, null, keypress) is decided by the last rule, in the    *)
(* order of the merged list, among the rules indexed under keypress whose  *)
(* when clause is absent or true in ctx, and it is null exactly when there *)
(* is no such rule.                                                        *)
C4_PriorityByRecency ==
    (call.op = "resolve" /\ call.currentChord = Null) =>
      LET P == MatchingPositions(call.keypress, call.context)
      IN IF P = {} THEN result = <<>>
         ELSE LET last == CHOOSE n \in P : \A m \in P : m <= n
              IN result = <<FreshOutcome(keybindings[last])>>

(* two rules on the same single chord are both satisfied and the later     *)
(* one's commands and bubble flag were returned                            *)
C4_Witness ==
    /\ call.op = "resolve"
    /\ call.currentChord = Null
    /\ \E m, n \in MatchingPositions(call.keypress, call.context) :
         /\ m < n
         /\ Len(keybindings[m].chords) = 1
         /\ Len(keybindings[n].chords) = 1
         /\ keybindings[m].commands # keybindings[n].commands
         /\ keybindings[m].bubble # keybindings[n].bubble
         /\ result = <<FreshOutcome(keybindings[n])>>

(* C7: no rule with zero chords is in an entry of _map, and every non-null *)
(* result of resolve() comes from a rule that has chords.                  *)
C7_NoZeroChordRule ==
    /\ \A k \in DOMAIN map : \A r \in Range(map[k]) : Len(r.chords) > 0
    /\ (call.op = "resolve" /\ result # <<>>) =>
         /\ found # <<>>
         /\ Len(found[1].chords) > 0
         /\ result[1].commands \in {<<>>, found[1].commands}

(* resolve() returned commands while the merged list holds a rule with     *)
(* zero chords                                                             *)
C7_Witness ==
    /\ call.op = "resolve"
    /\ result # <<>>
    /\ result[1].commands # <<>>
    /\ \E r \in Range(keybindings) : Len(r.chords) = 0

(* C10: in a non-null result of resolve(), enterMultiChord and             *)
(* leaveMultiChord are not both true; enterMultiChord is true only in the  *)
(* fresh state, with no commands and bubble false; and a result of a call  *)
(* with currentChord set has leaveMultiChord true and comes from a rule    *)
(* whose first chord is currentChord and whose second chord is keypress.   *)
C10_ResultShape ==
    (call.op = "resolve" /\ result # <<>>) =>
      /\ ~(result[1].enterMultiChord /\ result[1].leaveMultiChord)
      /\ result[1].enterMultiChord =>
           /\ call.currentChord = Null
           /\ result[1].commands = <<>>
           /\ ~result[1].bubble
      /\ call.currentChord # Null =>
           /\ result[1].leaveMultiChord
           /\ found # <<>>
           /\ Len(found[1].chords) > 1
           /\ found[1].chords[1] = call.currentChord
           /\ found[1].chords[2] = call.keypress

(* resolve() with currentChord set returned the commands of a two-chord    *)
(* rule whose bubble flag is set                                           *)
C10_Witness ==
    /\ call.op = "resolve"
    /\ call.currentChord # Null
    /\ result # <<>>
    /\ result[1].bubble
    /\ result[1].leaveMultiChord
    /\ \E r \in Range(map[call.currentChord]) : Len(r.chords) = 1

(* the entry of _lookupMap for the command id, empty when there is none *)
Candidates(commandId) ==
    IF commandId \in DOMAIN lookupMap THEN lookupMap[commandId] ELSE <<>>

(* the positions of the candidates whose when clause the context satisfies *)
SatisfiedCandidates(items, context) ==
    {n \in DOMAIN items : Satisfied(items[n].when, context)}

(* C5, as claimed: lookupPrimaryKeybinding returns null only when there is *)
(* no candidate; with two or more candidates it returns the most recently  *)
(* inserted one whose when clause the context satisfies and, when there is *)
(* none, the oldest candidate.                                             *)
C5_FallbackOldest ==
    call.op = "lookupPrimaryKeybinding" =>
      LET items == Candidates(call.commandId)
          S == SatisfiedCandidates(items, call.context)
      IN IF Len(items) = 0 THEN result = <<>>
         ELSE IF Len(items) = 1 THEN result # <<>>
         ELSE IF S # {} THEN result = <<items[CHOOSE n \in S : \A m \in S : m <= n]>>
         ELSE result = <<items[1]>>

(* C5, amended: lookupPrimaryKeybinding returns null only when there is no *)
(* candidate; with two or more candidates it returns the most recently     *)
(* inserted one whose when clause the context satisfies and, when there is *)
(* none, the most recently inserted candidate.                             *)
C5_FallbackNewest ==
    call.op = "lookupPrimaryKeybinding" =>
      LET items == Candidates(call.commandId)
          S == SatisfiedCandidates(items, call.context)
      IN IF Len(items) = 0 THEN result = <<>>
         ELSE IF Len(items) = 1 THEN result # <<>>
         ELSE IF S # {} THEN result = <<items[CHOOSE n \in S : \A m \in S : m <= n]>>
         ELSE result = <<items[Len(items)]>>

(* lookupPrimaryKeybinding fell back: several candidates, none satisfied   *)
C5_Witness ==
    /\ call.op = "lookupPrimaryKeybinding"
    /\ Len(Candidates(call.commandId)) >= 2
    /\ SatisfiedCandidates(Candidates(call.commandId), call.context) = {}
    /\ result = <<Candidates(call.commandId)[Len(Candidates(call.commandId))]>>

(* it is provable that the when clause p implies the when clause q, an     *)
(* absent when clause standing for true                                    *)
ProvablyImplies(p, q) ==
    Implies(IF p = Undefined THEN "true" ELSE p,
            IF q = Undefined THEN "true" ELSE q)

(* B is registered before A, on the same single chord, with other commands *)
SameChordConflict(A, B) ==
    /\ B.id < A.id
    /\ Len(B.chords) = 1
    /\ A.chords = B.chords
    /\ Len(B.commands) = 1
    /\ A.commands # B.commands

(* C2, as claimed: when B's when clause is provably implied by the when    *)
(* clause of a rule A registered after B on the same single chord with     *)
(* other commands, lookupKeybindings(B's command) does not contain B and   *)
(* resolve() on the chord in a context that satisfies B's when clause but  *)
(* not A's returns B's commands.                                           *)
C2_ImpliedByLater ==
    pc = "ready" =>
      \A A, B \in Range(Input) :
        (SameChordConflict(A, B) /\ ProvablyImplies(A.when, B.when)) =>
          /\ (call.op = "lookupKeybindings" /\ call.commandId = B.commands[1])
               => B \notin Range(result)
          /\ ( /\ call.op = "resolve"
               /\ call.currentChord = Null
               /\ call.keypress = B.chords[1]
               /\ Satisfied(B.when, call.context)
               /\ ~Satisfied(A.when, call.context) )
               => /\ result # <<>>
                  /\ result[1].commands = B.commands

(* C2, amended: when B's when clause provably implies the when clause of a *)
(* rule A registered after B, both indexed under the same single chord     *)
(* with other commands, then after construction B is in no entry of        *)
(* _lookupMap and lookupKeybindings does not return it, B is still in the  *)
(* entry of _map for the chord, and resolve() on the chord in a context    *)
(* that satisfies B's when clause is decided by a rule registered after B. *)
C2_ShadowedByLater ==
    pc = "ready" =>
      \A A, B \in Range(keybindings) :
        ( /\ SameChordConflict(A, B)
          /\ A.when # "false"
          /\ B.when # "false"
          /\ ProvablyImplies(B.when, A.when) ) =>
          /\ \A c \in DOMAIN lookupMap : B \notin Range(lookupMap[c])
          /\ call.op = "lookupKeybindings" => B \notin Range(result)
          /\ B.chords[1] \in DOMAIN map
          /\ B \in Range(map[B.chords[1]])
          /\ ( /\ call.op = "resolve"
               /\ call.currentChord = Null
               /\ call.keypress = B.chords[1]
               /\ Satisfied(B.when, call.context) )
               => /\ found # <<>>
                  /\ found[1].id > B.id

(* lookupKeybindings(B's command) was called where a later rule A with a   *)
(* strictly weaker when clause shadows B, and another rule of B's command  *)
(* was returned                                                            *)
C2_Witness ==
    /\ call.op = "lookupKeybindings"
    /\ \E A, B \in Range(keybindings) :
         /\ SameChordConflict(A, B)
         /\ ProvablyImplies(B.when, A.when)
         /\ ~ProvablyImplies(A.when, B.when)
         /\ A.when # Undefined
         /\ call.commandId = B.commands[1]
         /\ B \notin Range(result)
         /\ result # <<>>
         /\ B \in Range(map[B.chords[1]])

====
